---- MODULE Spec2Model ----
(***************************************************************************)
(* LiveSplit.SonicSuperstars auto splitter (src/src/lib.rs).               *)
(*                                                                         *)
(* One attach session runs the tick loop of main: settings.update(),       *)
(* update_loop (the sampling pass over the seven watchers), then the       *)
(* in-run step (isLoading, gameTime, reset, split) and the start step.     *)
(* The game's memory, the user's settings and the external timer are the   *)
(* environment: each tick draws the results of the memory reads, the       *)
(* settings map and the timer state seen at the start step from pools.     *)
(***************************************************************************)
EXTENDS Integers, Sequences, FiniteSets, TLC

VARIABLES
    attached,     \* a game process is attached (inside until_closes)
    watchers,     \* struct Watchers: one Watcher (Option<Pair>) per field
    settings,     \* struct Settings after settings.update(): the enabled toggles
    ts_run,       \* timer::state() as read at line 54 of the latest tick
    ts_start,     \* timer::state() as read at line 75 of the latest tick
    cmds,         \* the timer commands issued by the latest tick, in order
    mem,          \* the results the game's memory gave to the latest tick's reads
    tick,         \* ticks completed in this session, saturating at MaxTicks
    scen,         \* progress of the level-completion scenario (history)
    prev_flag     \* the story first-play flag as read by the tick before the latest

vars == <<attached, watchers, settings, ts_run, ts_start, cmds, mem, tick, scen, prev_flag>>

\* The session tick counter saturates here ("MaxTicks or more").
MaxTicks == 2

-----------------------------------------------------------------------------
(* Rust values *)

\* Result<T, Error> of a memory read.
Err == [ok |-> FALSE]
Ok(v) == [ok |-> TRUE, val |-> v]

\* Result::unwrap_or_default, with the type's default d.
unwrap_or_default(r, d) == IF r.ok THEN r.val ELSE d

\* Result::is_ok_and(|val| val == v).
is_ok_and_eq(r, v) == r.ok /\ r.val = v

\* Option<Pair<T>> of asr::watcher::Watcher.
NoPair == [some |-> FALSE]
Pair(o, c) == [some |-> TRUE, old |-> o, current |-> c]

\* Watcher::update_infallible: the first value fills both halves of the pair,
\* then current moves to old and the value becomes current.
update_infallible(w, value) ==
    LET pair == IF w.some THEN w ELSE Pair(value, value)
    IN  Pair(pair.current, value)

\* Pair::changed and Pair::changed_to.
changed(p) == p.old # p.current
changed_to(p, v) == changed(p) /\ p.current = v

\* watcher.pair.is_some_and(|val| val.changed_to(&v))
is_some_and_changed_to(w, v) == w.some /\ changed_to(w, v)

\* Watchers whose start trigger starts out as an already sampled false.
WatchersPrimed ==
    [ start_trigger      |-> Pair(FALSE, FALSE),
      start_trigger_trip |-> NoPair,
      game_mode          |-> NoPair,
      level_id           |-> NoPair,
      is_loading         |-> NoPair,
      goal_ring_flag     |-> NoPair,
      boss_defeated      |-> NoPair ]

\* Watchers::default()
WatchersDefault ==
    [ start_trigger      |-> NoPair,
      start_trigger_trip |-> NoPair,
      game_mode          |-> NoPair,
      level_id           |-> NoPair,
      is_loading         |-> NoPair,
      goal_ring_flag     |-> NoPair,
      boss_defeated      |-> NoPair ]

TimerStates == {"NotRunning", "Running", "Paused", "Ended"}

-----------------------------------------------------------------------------
(* update_loop: the sampling pass *)

GAME_SCENE_CONTROLLER_TYPES ==
    { "GameSceneController",
      "BlackDragonBattleGameSceneController",
      "BRMainGameSceneController",
      "BROverallResultSceneController",
      "EndingGameSceneController",
      "MiniActGameSceneController",
      "ShootingGameSceneController",
      "WorldMapGameSceneController" }

BOSSES_TYPES == {"Bos111", "Bos112"}

\* Address of the scene controller: the dereferenced pointer, or the null
\* default when the dereference fails.
current_scene_controller(m) == unwrap_or_default(m.current_scene_controller, 0)

\* A read through the scene controller's address: nothing is mapped at null.
ReadAt(ctrl, r) == IF ctrl = 0 THEN Err ELSE r

\* Class name of the scene controller ("" when it cannot be read).
current_scene_controller_name(m) ==
    unwrap_or_default(ReadAt(current_scene_controller(m), m.scene_name), "")

is_game_scene(m) == current_scene_controller_name(m) \in GAME_SCENE_CONTROLLER_TYPES

\* current_slot: index of the save slot in use, 0 when it cannot be read.
current_slot(m) ==
    IF m.sys_save.ok THEN unwrap_or_default(m.current_slot, 0) ELSE 0

\* save_slot: Option<Address64> of the current slot's save data.
save_slot(m) ==
    IF m.sys_save.ok /\ m.save_datas[current_slot(m)].ok
    THEN Ok(current_slot(m))
    ELSE Err

\* start_trigger_sample without the negation.
start_trigger_sample_plain(m) ==
    IF save_slot(m).ok
    THEN unwrap_or_default(m.save_datas[save_slot(m).val].val.is_normal_first_play, FALSE)
    ELSE FALSE

\* The value fed to watchers.start_trigger: the negated first-play flag.
start_trigger_sample(m) ==
    ~ ( IF save_slot(m).ok
        THEN unwrap_or_default(m.save_datas[save_slot(m).val].val.is_normal_first_play, FALSE)
        ELSE FALSE )

\* The value fed to watchers.start_trigger_trip.
start_trigger_trip_sample(m) ==
    ~ ( IF save_slot(m).ok
        THEN unwrap_or_default(m.save_datas[save_slot(m).val].val.is_trip_first_play, FALSE)
        ELSE FALSE )

\* level_id_sample reading the stage id whatever the scene.
level_id_sample_ungated(m, w) ==
    unwrap_or_default(ReadAt(current_scene_controller(m), m.stage_id), 0)

\* The value fed to watchers.level_id.
level_id_sample(m, w) ==
    IF is_game_scene(m)
    THEN unwrap_or_default(ReadAt(current_scene_controller(m), m.stage_id), 0)
    ELSE IF w.level_id.some THEN w.level_id.current ELSE 0

\* The value fed to watchers.is_loading.
is_loading_sample(m) == unwrap_or_default(m.is_loading, FALSE)

\* The value fed to watchers.goal_ring_flag.
goal_ring_flag_sample(m, w) ==
    IF is_game_scene(m)
    THEN LET ctrl == current_scene_controller(m)
             is_time_attack == ReadAt(ctrl, m.is_time_attack_mode)
         IN  IF is_ok_and_eq(is_time_attack, TRUE)
             THEN FALSE
             ELSE \/ is_ok_and_eq(ReadAt(ctrl, m.is_result_sequence), TRUE)
                  \/ is_ok_and_eq(ReadAt(ctrl, m.is_goal_sequence), TRUE)
    ELSE IF w.goal_ring_flag.some THEN w.goal_ring_flag.current ELSE FALSE

\* The value fed to watchers.game_mode.
game_mode_sample(m) == unwrap_or_default(m.game_mode, 0)

\* The active boss's class name is one of BOSSES_TYPES.
is_boss(m) ==
    LET name == ReadAt(current_scene_controller(m), m.boss_name)
    IN  name.ok /\ name.val \in BOSSES_TYPES

\* The value fed to watchers.boss_defeated.
boss_defeated_sample(m, w) ==
    IF is_boss(m)
    THEN is_ok_and_eq(ReadAt(current_scene_controller(m), m.boss_base_type), 3)
    ELSE IF w.boss_defeated.some THEN w.boss_defeated.current ELSE FALSE

\* update_loop pushing each sample into its watcher twice.
update_loop_twice(m, w) ==
    LET twice(x, v) == update_infallible(update_infallible(x, v), v)
    IN  [ start_trigger      |-> twice(w.start_trigger, start_trigger_sample(m)),
          start_trigger_trip |-> twice(w.start_trigger_trip, start_trigger_trip_sample(m)),
          level_id           |-> twice(w.level_id, level_id_sample(m, w)),
          is_loading         |-> twice(w.is_loading, is_loading_sample(m)),
          goal_ring_flag     |-> twice(w.goal_ring_flag, goal_ring_flag_sample(m, w)),
          game_mode          |-> twice(w.game_mode, game_mode_sample(m)),
          boss_defeated      |-> twice(w.boss_defeated, boss_defeated_sample(m, w)) ]

update_loop(m, w) ==
    [ start_trigger      |-> update_infallible(w.start_trigger, start_trigger_sample(m)),
      start_trigger_trip |-> update_infallible(w.start_trigger_trip, start_trigger_trip_sample(m)),
      level_id           |-> update_infallible(w.level_id, level_id_sample(m, w)),
      is_loading         |-> update_infallible(w.is_loading, is_loading_sample(m)),
      goal_ring_flag     |-> update_infallible(w.goal_ring_flag, goal_ring_flag_sample(m, w)),
      game_mode          |-> update_infallible(w.game_mode, game_mode_sample(m)),
      boss_defeated      |-> update_infallible(w.boss_defeated, boss_defeated_sample(m, w)) ]

-----------------------------------------------------------------------------
(* The decision functions.  s is the set of enabled settings toggles. *)

\* start reading the triggers' current values instead of their changes.
start_on_level(w, s) ==
    \/ "start_story" \in s /\ w.start_trigger.some /\ w.start_trigger.current
    \/ "start_trip" \in s /\ w.start_trigger_trip.some /\ w.start_trigger_trip.current
    \/ "start_last_story" \in s /\ w.game_mode.some /\ w.game_mode.current = 2

\* start without the Last Story trigger.
start_without_last_story(w, s) ==
    \/ "start_story" \in s /\ is_some_and_changed_to(w.start_trigger, TRUE)
    \/ "start_trip" \in s /\ is_some_and_changed_to(w.start_trigger_trip, TRUE)

start(w, s) ==
    \/ "start_story" \in s /\ is_some_and_changed_to(w.start_trigger, TRUE)
    \/ "start_trip" \in s /\ is_some_and_changed_to(w.start_trigger_trip, TRUE)
    \/ "start_last_story" \in s /\ is_some_and_changed_to(w.game_mode, 2)

\* story_level with the first arm reading the toggle of the next act.
story_level_next_act(s, id) ==
    CASE id = 10100 -> "bridge_island_2" \in s
      [] id = 10200 -> "bridge_island_2" \in s
      [] id = 110200 -> "egg_fortress_2" \in s
      [] OTHER -> FALSE

\* match level_id.old of the Story branch (game mode 0).
story_level(s, id) ==
    CASE id = 10100 -> "bridge_island_1" \in s
      [] id = 10200 -> "bridge_island_2" \in s
      [] id = 600102 -> "bridge_island_fruit" \in s
      [] id = 20100 -> "speed_jungle_1" \in s
      [] id = 20200 -> "speed_jungle_sonic" \in s
      [] id = 20300 -> "speed_jungle_2" \in s
      [] id = 30100 -> "sky_temple_1" \in s
      [] id = 40100 -> "pinball_carnival_1" \in s
      [] id = 40200 -> "pinball_carnival_2" \in s
      [] id = 600401 -> "pinball_carnival_fruit" \in s
      [] id = 50100 -> "lagoon_city_1" \in s
      [] id = 50200 -> "lagoon_city_amy" \in s
      [] id = 50300 -> "lagoon_city_2" \in s
      [] id = 60100 -> "sand_sanctuary_1" \in s
      [] id = 70100 -> "press_factory_1" \in s
      [] id = 70200 -> "press_factory_2" \in s
      [] id = 600702 -> "press_factory_fruit" \in s
      [] id = 80100 -> "golden_capital_1" \in s
      [] id = 80200 -> "golden_capital_knuckles" \in s
      [] id = 80300 -> "golden_capital_2" \in s
      [] id = 90100 -> "cyber_station_1" \in s
      [] id = 100100 -> "frozen_base_1" \in s
      [] id = 100200 -> "frozen_base_tails" \in s
      [] id = 100300 -> "frozen_base_2" \in s
      [] id = 110100 -> "egg_fortress_1" \in s
      [] id = 110200 -> "egg_fortress_2" \in s
      [] OTHER -> FALSE

\* match level_id.old of the Trip's Story branch (game mode 1).
trip_level(s, id) ==
    CASE id = 10100 -> "trip_bridge_island_1" \in s
      [] id = 10200 -> "trip_bridge_island_2" \in s
      [] id = 600102 -> "trip_bridge_island_fruit" \in s
      [] id = 20100 -> "trip_speed_jungle_1" \in s
      [] id = 20200 -> "trip_speed_jungle_2" \in s
      [] id = 20300 -> "trip_speed_jungle_3" \in s
      [] id = 30100 -> "trip_sky_temple_1" \in s
      [] id = 40100 -> "trip_pinball_carnival_1" \in s
      [] id = 40200 -> "trip_pinball_carnival_2" \in s
      [] id = 600401 -> "trip_pinball_carnival_fruit" \in s
      [] id = 50100 -> "trip_lagoon_city_1" \in s
      [] id = 50200 -> "trip_lagoon_city_2" \in s
      [] id = 50300 -> "trip_lagoon_city_3" \in s
      [] id = 60100 -> "trip_sand_sanctuary_1" \in s
      [] id = 70100 -> "trip_press_factory_1" \in s
      [] id = 70200 -> "trip_press_factory_2" \in s
      [] id = 600702 -> "trip_press_factory_fruit" \in s
      [] id = 80100 -> "trip_golden_capital_1" \in s
      [] id = 80200 -> "trip_golden_capital_2" \in s
      [] id = 80300 -> "trip_golden_capital_3" \in s
      [] id = 90100 -> "trip_cyber_station_1" \in s
      [] id = 100100 -> "trip_frozen_base_1" \in s
      [] id = 100200 -> "trip_frozen_base_2" \in s
      [] id = 100300 -> "trip_frozen_base_3" \in s
      [] id = 110100 -> "trip_egg_fortress_1" \in s
      [] id = 110200 -> "trip_egg_fortress_2" \in s
      [] OTHER -> FALSE

\* final_boss without the goal flag's rising edge.
final_boss_boss_only(w) ==
    /\ w.level_id.old = 110200
    /\ is_some_and_changed_to(w.boss_defeated, TRUE)

\* The "Final boss" test of split: Egg Fortress 2 left behind with the boss
\* defeated or the goal flag raised.
final_boss(w) ==
    /\ w.level_id.old = 110200
    /\ \/ is_some_and_changed_to(w.boss_defeated, TRUE)
       \/ changed_to(w.goal_ring_flag, TRUE)

\* split_by_mode taking either edge of the goal flag.
split_by_mode_any_edge(w, s) ==
    CASE w.game_mode.current = 0 ->
            changed(w.goal_ring_flag) /\ story_level(s, w.level_id.old)
      [] w.game_mode.current = 1 ->
            changed(w.goal_ring_flag) /\ trip_level(s, w.level_id.old)
      [] w.game_mode.current = 2 ->
            is_some_and_changed_to(w.boss_defeated, TRUE) /\ "black_dragon" \in s
      [] OTHER -> FALSE

\* split_by_mode indexing the level tables with the current level id.
split_by_mode_current_level(w, s) ==
    CASE w.game_mode.current = 0 ->
            changed_to(w.goal_ring_flag, FALSE) /\ story_level(s, w.level_id.current)
      [] w.game_mode.current = 1 ->
            changed_to(w.goal_ring_flag, FALSE) /\ trip_level(s, w.level_id.current)
      [] w.game_mode.current = 2 ->
            is_some_and_changed_to(w.boss_defeated, TRUE) /\ "black_dragon" \in s
      [] OTHER -> FALSE

\* match game_mode.current at the end of split.
split_by_mode(w, s) ==
    CASE w.game_mode.current = 0 ->
            changed_to(w.goal_ring_flag, FALSE) /\ story_level(s, w.level_id.old)
      [] w.game_mode.current = 1 ->
            changed_to(w.goal_ring_flag, FALSE) /\ trip_level(s, w.level_id.old)
      [] w.game_mode.current = 2 ->
            is_some_and_changed_to(w.boss_defeated, TRUE) /\ "black_dragon" \in s
      [] OTHER -> FALSE

\* split whose final-stage test answers with egg_fortress_2 in every game
\* mode but 1.
split_final_any_mode(w, s) ==
    IF ~w.game_mode.some \/ ~w.level_id.some \/ ~w.goal_ring_flag.some
    THEN FALSE
    ELSE IF final_boss(w) /\ w.game_mode.current = 1 THEN "trip_egg_fortress_2" \in s
    ELSE IF final_boss(w) THEN "egg_fortress_2" \in s
    ELSE split_by_mode(w, s)

split(w, s) ==
    IF ~w.game_mode.some \/ ~w.level_id.some \/ ~w.goal_ring_flag.some
    THEN FALSE
    ELSE IF final_boss(w) /\ w.game_mode.current = 0 THEN "egg_fortress_2" \in s
    ELSE IF final_boss(w) /\ w.game_mode.current = 1 THEN "trip_egg_fortress_2" \in s
    ELSE split_by_mode(w, s)

\* reset firing when a new game begins.
reset_on_new_game(w, s) == is_some_and_changed_to(w.start_trigger, TRUE)

reset(w, s) == FALSE

\* Option<bool>: the loading watcher's current value.
NoneOpt == [some |-> FALSE]
Some(v) == [some |-> TRUE, val |-> v]

\* is_loading reporting the flag only on the ticks where it changed.
is_loading_on_change(w, s) ==
    IF w.is_loading.some /\ changed(w.is_loading) THEN Some(w.is_loading.current) ELSE NoneOpt

is_loading(w, s) == IF w.is_loading.some THEN Some(w.is_loading.current) ELSE NoneOpt

game_time(w, s, m) == NoneOpt

-----------------------------------------------------------------------------
(* One iteration of main's loop *)

\* if let Some(is_loading) = is_loading(..) { pause_game_time / resume_game_time }
LoadingCmd(w, s) ==
    LET l == is_loading(w, s)
    IN  IF l.some
        THEN IF l.val THEN <<"pause_game_time">> ELSE <<"resume_game_time">>
        ELSE <<>>

\* if let Some(game_time) = game_time(..) { set_game_time }
GameTimeCmd(w, s, m) == IF game_time(w, s, m).some THEN <<"set_game_time">> ELSE <<>>

\* Two independent ifs in place of if / else if.
ResetAndSplit(r, sp) ==
    (IF r THEN <<"reset">> ELSE <<>>) \o (IF sp THEN <<"split">> ELSE <<>>)

\* if r { reset } else if sp { split }, r and sp the values of reset(..) and
\* split(..); split(..) is not evaluated when r is true.
ResetElseSplit(r, sp) ==
    IF r THEN <<"reset">>
    ELSE IF sp THEN <<"split">>
    ELSE <<>>

\* if reset(..) { reset } else if split(..) { split }
ResetSplitCmd(w, s) == ResetElseSplit(reset(w, s), split(w, s))

\* InRunCmds deciding reset and split before the loading command.
InRunCmds_split_first(t, w, s, m) ==
    IF t = "Running" \/ t = "Paused"
    THEN ResetSplitCmd(w, s) \o LoadingCmd(w, s) \o GameTimeCmd(w, s, m)
    ELSE <<>>

\* InRunCmds gated on "not NotRunning" instead of Running or Paused.
InRunCmds_unless_not_running(t, w, s, m) ==
    IF t # "NotRunning"
    THEN LoadingCmd(w, s) \o GameTimeCmd(w, s, m) \o ResetSplitCmd(w, s)
    ELSE <<>>

\* The in-run step: the timer state t read after the sampling pass.
InRunCmds(t, w, s, m) ==
    IF t = "Running" \/ t = "Paused"
    THEN LoadingCmd(w, s) \o GameTimeCmd(w, s, m) \o ResetSplitCmd(w, s)
    ELSE <<>>

\* StartCmds gated on "not Running" instead of NotRunning.
StartCmds_unless_running(t, w, s) ==
    IF t # "Running" /\ start(w, s)
    THEN <<"start", "pause_game_time">> \o LoadingCmd(w, s)
    ELSE <<>>

\* StartCmds that re-evaluates the loading flag twice after start.
StartCmds_reload_twice(t, w, s) ==
    IF t = "NotRunning" /\ start(w, s)
    THEN <<"start", "pause_game_time">> \o LoadingCmd(w, s) \o LoadingCmd(w, s)
    ELSE <<>>

\* StartCmds that leaves game time paused after start.
StartCmds_no_reload(t, w, s) ==
    IF t = "NotRunning" /\ start(w, s)
    THEN <<"start", "pause_game_time">>
    ELSE <<>>

\* The start step: the timer state t read again after the in-run step.
StartCmds(t, w, s) ==
    IF t = "NotRunning" /\ start(w, s)
    THEN <<"start", "pause_game_time">> \o LoadingCmd(w, s)
    ELSE <<>>

Range(q) == {q[i] : i \in 1..Len(q)}
Count(q, c) == Cardinality({i \in 1..Len(q) : q[i] = c})

-----------------------------------------------------------------------------
(* History of the level-completion scenario: consecutive ticks with the     *)
(* timer Running, game mode 0, level id 10100, the toggle bridge_island_1   *)
(* unchanged and the goal flag sampled FALSE, TRUE, FALSE.                  *)

ScenNone == [step |-> 0, on |-> FALSE, pre |-> FALSE, s1 |-> FALSE, s2 |-> FALSE, s3 |-> FALSE]

ScenGoal(k) == IF k = 2 THEN TRUE ELSE FALSE

ScenMatch(k, t, w) ==
    /\ t = "Running"
    /\ w.game_mode.current = 0
    /\ w.level_id.current = 10100
    /\ w.goal_ring_flag.current = ScenGoal(k)

ScenNext(sc, t, w, s, c) ==
    LET on  == "bridge_island_1" \in s
        sp  == "split" \in Range(c)
        pre == changed(w.goal_ring_flag) \/ changed(w.boss_defeated)
    IN  IF sc.step = 1 /\ sc.on = on /\ ScenMatch(2, t, w)
        THEN [sc EXCEPT !.step = 2, !.s2 = sp]
        ELSE IF sc.step = 2 /\ sc.on = on /\ ScenMatch(3, t, w)
        THEN [sc EXCEPT !.step = 3, !.s3 = sp]
        ELSE IF sc.step = 3 /\ sc.on = on /\ ScenMatch(2, t, w)
        THEN [step |-> 2, on |-> on, pre |-> TRUE, s1 |-> sc.s3, s2 |-> sp, s3 |-> FALSE]
        ELSE IF ScenMatch(1, t, w)
        THEN [step |-> 1, on |-> on, pre |-> pre, s1 |-> sp, s2 |-> FALSE, s3 |-> FALSE]
        ELSE ScenNone

\* The read of the story first-play flag of the current save slot, as text:
\* "fail" when the save data, the slot or the flag cannot be read.
FlagRead(m) ==
    LET r == IF save_slot(m).ok
             THEN m.save_datas[save_slot(m).val].val.is_normal_first_play
             ELSE Err
    IN  IF ~r.ok THEN "fail" ELSE IF r.val THEN "true" ELSE "false"

-----------------------------------------------------------------------------
(* Actions *)

\* A memory in which no read succeeds.
AllFail ==
    [ current_scene_controller |-> Err,
      scene_name          |-> Err,
      sys_save            |-> Err,
      current_slot        |-> Err,
      save_datas          |-> [i \in {0, 1} |-> Err],
      stage_id            |-> Err,
      is_loading          |-> Err,
      is_time_attack_mode |-> Err,
      is_result_sequence  |-> Err,
      is_goal_sequence    |-> Err,
      game_mode           |-> Err,
      boss_name           |-> Err,
      boss_base_type      |-> Err ]

InitWith(s0) ==
    /\ attached = FALSE
    /\ watchers = WatchersDefault
    /\ settings = s0
    /\ ts_run = "NotRunning"
    /\ ts_start = "NotRunning"
    /\ cmds = <<>>
    /\ mem = AllFail
    /\ tick = 0
    /\ scen = ScenNone
    /\ prev_flag = "none"

\* Process::attach succeeds and Memory::init completes: fresh watchers.
Attach ==
    /\ ~attached
    /\ attached' = TRUE
    /\ watchers' = WatchersDefault
    /\ tick' = 0
    /\ UNCHANGED <<settings, ts_run, ts_start, cmds, mem, scen, prev_flag>>

\* The game closes: until_closes drops the session at the tick boundary.
Detach ==
    /\ attached
    /\ attached' = FALSE
    /\ watchers' = WatchersDefault
    /\ ts_run' = "NotRunning"
    /\ ts_start' = "NotRunning"
    /\ cmds' = <<>>
    /\ mem' = AllFail
    /\ tick' = 0
    /\ scen' = ScenNone
    /\ prev_flag' = "none"
    /\ UNCHANGED settings

\* The loop body (lines 51-88) with the settings map s, the memory m, and the
\* timer states t1 and t2 returned by the two timer::state() calls.
Tick(m, s, t1, t2) ==
    /\ attached
    /\ \E w \in {update_loop(m, watchers)} :
       \E c \in {InRunCmds(t1, w, s, m) \o StartCmds(t2, w, s)} :
           /\ settings' = s
           /\ watchers' = w
           /\ ts_run' = t1
           /\ ts_start' = t2
           /\ cmds' = c
           /\ mem' = m
           /\ tick' = IF tick < MaxTicks THEN tick + 1 ELSE tick
           /\ scen' = ScenNext(scen, t1, w, s, c)
           /\ prev_flag' = IF tick = 0 THEN "none" ELSE FlagRead(mem)
    /\ UNCHANGED attached

-----------------------------------------------------------------------------
(* The environment: settings maps, memories and timer states of a tick *)

\* The toggles of struct Settings (the section headers _story, _trip and
\* _final_story are read by no decision function and stay off).
AllToggles ==
    {
      "start_story", "start_trip", "start_last_story", "bridge_island_1",
      "bridge_island_2", "bridge_island_fruit", "speed_jungle_1", "speed_jungle_sonic",
      "speed_jungle_2", "sky_temple_1", "pinball_carnival_1", "pinball_carnival_2",
      "pinball_carnival_fruit", "lagoon_city_1", "lagoon_city_amy", "lagoon_city_2",
      "sand_sanctuary_1", "press_factory_1", "press_factory_2", "press_factory_fruit",
      "golden_capital_1", "golden_capital_knuckles", "golden_capital_2",
      "cyber_station_1", "frozen_base_1", "frozen_base_tails", "frozen_base_2",
      "egg_fortress_1", "egg_fortress_2", "trip_bridge_island_1", "trip_bridge_island_2",
      "trip_bridge_island_fruit", "trip_speed_jungle_1", "trip_speed_jungle_2",
      "trip_speed_jungle_3", "trip_sky_temple_1", "trip_pinball_carnival_1",
      "trip_pinball_carnival_2", "trip_pinball_carnival_fruit", "trip_lagoon_city_1",
      "trip_lagoon_city_2", "trip_lagoon_city_3", "trip_sand_sanctuary_1",
      "trip_press_factory_1", "trip_press_factory_2", "trip_press_factory_fruit",
      "trip_golden_capital_1", "trip_golden_capital_2", "trip_golden_capital_3",
      "trip_cyber_station_1", "trip_frozen_base_1", "trip_frozen_base_2",
      "trip_frozen_base_3", "trip_egg_fortress_1", "trip_egg_fortress_2", "black_dragon" }

\* Settings::register(): the defaults, every toggle on.
DefaultSettings == AllToggles

\* Memory images, built from the reads of one region each.
SceneMem(ptr, name, stage, ta, res, goal) ==
    [ current_scene_controller |-> ptr,
      scene_name          |-> name,
      stage_id            |-> stage,
      is_time_attack_mode |-> ta,
      is_result_sequence  |-> res,
      is_goal_sequence    |-> goal ]

SaveMem(sys, slot, datas) ==
    [ sys_save |-> sys, current_slot |-> slot, save_datas |-> datas ]

SlotData(first, trip) == Ok([is_normal_first_play |-> first, is_trip_first_play |-> trip])

BossMem(name, type) == [ boss_name |-> name, boss_base_type |-> type ]

FlagMem(loading, gm) == [ is_loading |-> loading, game_mode |-> gm ]

\* A scene outside the game scenes, and a game scene.
TitleScene == SceneMem(Ok(1), Ok("TitleSceneController"), Err, Err, Err, Err)
GameScene(stage, ta, res, goal) == SceneMem(Ok(1), Ok("GameSceneController"), stage, ta, res, goal)

\* A save file whose current slot 0 has been played before (both flags false).
PlayedSave == SaveMem(Ok(1), Ok(0), [i \in {0, 1} |-> SlotData(Ok(FALSE), Ok(FALSE))])
NoSave == SaveMem(Err, Err, [i \in {0, 1} |-> Err])

NoBoss == BossMem(Err, Err)

-----------------------------------------------------------------------------
(* SpecSplit: the level, goal, boss and game-mode reads vary; the save file *)
(* and the loading flag are steady.                                         *)

\* Results of the reads (is_time_attack_mode, is_result_sequence, is_goal_sequence).
GoalReads ==
    { <<Ok(TRUE),  Ok(TRUE),  Err>>,
      <<Ok(FALSE), Ok(FALSE), Ok(TRUE)>>,
      <<Ok(FALSE), Ok(FALSE), Ok(FALSE)>>,
      <<Err,       Ok(TRUE),  Err>> }

SplitStages == {Ok(10100), Ok(110200)}

SplitScenes ==
    {TitleScene} \cup {GameScene(st, g[1], g[2], g[3]) : st \in SplitStages, g \in GoalReads}

SplitBosses == {BossMem(Ok("Bos111"), Ok(3)), BossMem(Ok("Bos111"), Ok(0))}

SplitModes == {Ok(0), Ok(1), Ok(2)}

\* The boss fights take place in a game scene with no goal sequence running.
BossScene == GameScene(Ok(110200), Ok(FALSE), Ok(FALSE), Ok(FALSE))

SplitMems ==
    { sc @@ PlayedSave @@ NoBoss @@ FlagMem(Ok(FALSE), gm) :
        sc \in SplitScenes, gm \in SplitModes }
    \cup
    { BossScene @@ PlayedSave @@ b @@ FlagMem(Ok(FALSE), gm) :
        b \in SplitBosses, gm \in SplitModes }

SplitSettings ==
    { {},
      {"bridge_island_1", "black_dragon"},
      {"egg_fortress_2", "trip_egg_fortress_2", "trip_bridge_island_1"} }

SplitTimers == { <<"Running", "Running">>, <<"NotRunning", "NotRunning">> }

TickSplit == \E m \in SplitMems, s \in SplitSettings, t \in SplitTimers : Tick(m, s, t[1], t[2])

NextSplit == Attach \/ TickSplit \/ Detach

SpecSplit == InitWith(DefaultSettings) /\ [][NextSplit]_vars

-----------------------------------------------------------------------------
(* Spec: every region of memory varies over a few values, with every read   *)
(* failing at once as one more image; the timer is seen in each state.      *)

\* A save file whose current slot has never been played (both flags true).
FreshSave == SaveMem(Ok(1), Ok(0), [i \in {0, 1} |-> SlotData(Ok(TRUE), Ok(TRUE))])

CoarseScenes ==
    { TitleScene,
      GameScene(Ok(10100), Ok(FALSE), Ok(FALSE), Ok(TRUE)),
      GameScene(Ok(10100), Ok(FALSE), Ok(FALSE), Ok(FALSE)) }

CoarseMems ==
    { sc @@ sv @@ NoBoss @@ FlagMem(Ok(TRUE), gm) :
        sc \in CoarseScenes, sv \in {PlayedSave, FreshSave}, gm \in {Ok(0), Ok(2)} }
    \cup {AllFail}

CoarseSettings == { {}, {"start_story", "bridge_island_1"}, DefaultSettings }

CoarseTimers ==
    { <<"NotRunning", "NotRunning">>, <<"Running", "Running">>, <<"Running", "NotRunning">>,
      <<"Paused", "Paused">>, <<"Ended", "Ended">> }

TickCoarse == \E m \in CoarseMems, s \in CoarseSettings, t \in CoarseTimers : Tick(m, s, t[1], t[2])

Next == Attach \/ TickCoarse \/ Detach

Init == InitWith(DefaultSettings)

Spec == Init /\ [][Next]_vars

-----------------------------------------------------------------------------
(* SpecLoad: the timer is Running throughout and the loading flag varies.   *)

LoadMems ==
    { TitleScene @@ sv @@ NoBoss @@ FlagMem(ld, gm) :
        sv \in {PlayedSave, NoSave},
        ld \in {Ok(TRUE), Ok(FALSE), Err}, gm \in {Ok(0), Ok(1), Err} }

LoadSettings == { {}, DefaultSettings }

TickLoad == \E m \in LoadMems, s \in LoadSettings : Tick(m, s, "Running", "Running")

NextLoad == Attach \/ TickLoad \/ Detach

SpecLoad == InitWith(DefaultSettings) /\ [][NextLoad]_vars

-----------------------------------------------------------------------------
(* SpecGate: the scene controller and the active boss vary over game and     *)
(* non-game classes, readable and unreadable.                                *)

\* A scene of another class, a scene whose class name cannot be read and a
\* scene controller pointer that cannot be dereferenced; the memory behind
\* them holds stage 20100 and a lowered goal flag.
OtherScene(ptr, name) == SceneMem(ptr, name, Ok(20100), Ok(FALSE), Ok(FALSE), Ok(FALSE))

GateScenes ==
    { OtherScene(Ok(1), Ok("TitleSceneController")),
      OtherScene(Ok(1), Err),
      OtherScene(Err, Ok("GameSceneController")),
      GameScene(Ok(10100), Ok(FALSE), Ok(FALSE), Ok(TRUE)),
      GameScene(Ok(20100), Ok(FALSE), Ok(FALSE), Ok(FALSE)) }

GateBosses ==
    { NoBoss,
      BossMem(Ok("Bos111"), Ok(3)),
      BossMem(Ok("Bos112"), Ok(0)),
      BossMem(Ok("Bos999"), Ok(3)),
      BossMem(Ok("Bos999"), Ok(0)) }

GateMems ==
    { sc @@ PlayedSave @@ b @@ FlagMem(Ok(FALSE), Ok(0)) : sc \in GateScenes, b \in GateBosses }

GateSettings == { {}, DefaultSettings }

GateTimers == { <<"Running", "Running">>, <<"NotRunning", "NotRunning">> }

TickGate == \E m \in GateMems, s \in GateSettings, t \in GateTimers : Tick(m, s, t[1], t[2])

NextGate == Attach \/ TickGate \/ Detach

SpecGate == InitWith(DefaultSettings) /\ [][NextGate]_vars

-----------------------------------------------------------------------------
(* SpecFinal: the final stage, with the goal flag, the boss and the game     *)
(* mode varying and the final-stage toggles set apart from the others.       *)

FinalScenes ==
    { GameScene(Ok(110200), Ok(FALSE), Ok(FALSE), Ok(TRUE)),
      BossScene,
      GameScene(Ok(110100), Ok(FALSE), Ok(FALSE), Ok(FALSE)) }

FinalBosses == {NoBoss, BossMem(Ok("Bos111"), Ok(3)), BossMem(Ok("Bos111"), Ok(0))}

FinalMems ==
    { sc @@ PlayedSave @@ b @@ FlagMem(Ok(FALSE), gm) :
        sc \in FinalScenes, b \in FinalBosses, gm \in SplitModes }

FinalSettings ==
    { {},
      {"egg_fortress_2"},
      {"trip_egg_fortress_2"},
      DefaultSettings \ {"egg_fortress_2"},
      DefaultSettings \ {"trip_egg_fortress_2"},
      DefaultSettings }

TickFinal == \E m \in FinalMems, s \in FinalSettings : Tick(m, s, "Running", "Running")

NextFinal == Attach \/ TickFinal \/ Detach

SpecFinal == InitWith(DefaultSettings) /\ [][NextFinal]_vars

-----------------------------------------------------------------------------
(* SpecLevel: the stage id changes from tick to tick, inside and outside the *)
(* level table, under settings that tell the two branches apart.             *)

\* The patterns of match level_id.old, the same in both branches, in order.
LevelKeys ==
    << 10100, 10200, 600102, 20100, 20200, 20300, 30100, 40100, 40200,
       600401, 50100, 50200, 50300, 60100, 70100, 70200, 600702, 80100,
       80200, 80300, 90100, 100100, 100200, 100300, 110100, 110200 >>

\* The level toggles of struct Settings in declaration order: the Story
\* section and the Trip section, each parallel to LevelKeys.
StoryFields ==
    << "bridge_island_1", "bridge_island_2", "bridge_island_fruit",
       "speed_jungle_1", "speed_jungle_sonic", "speed_jungle_2",
       "sky_temple_1", "pinball_carnival_1", "pinball_carnival_2",
       "pinball_carnival_fruit", "lagoon_city_1", "lagoon_city_amy",
       "lagoon_city_2", "sand_sanctuary_1", "press_factory_1",
       "press_factory_2", "press_factory_fruit", "golden_capital_1",
       "golden_capital_knuckles", "golden_capital_2", "cyber_station_1",
       "frozen_base_1", "frozen_base_tails", "frozen_base_2",
       "egg_fortress_1", "egg_fortress_2" >>

TripFields ==
    << "trip_bridge_island_1", "trip_bridge_island_2",
       "trip_bridge_island_fruit", "trip_speed_jungle_1",
       "trip_speed_jungle_2", "trip_speed_jungle_3",
       "trip_sky_temple_1", "trip_pinball_carnival_1",
       "trip_pinball_carnival_2", "trip_pinball_carnival_fruit",
       "trip_lagoon_city_1", "trip_lagoon_city_2", "trip_lagoon_city_3",
       "trip_sand_sanctuary_1", "trip_press_factory_1",
       "trip_press_factory_2", "trip_press_factory_fruit",
       "trip_golden_capital_1", "trip_golden_capital_2",
       "trip_golden_capital_3", "trip_cyber_station_1",
       "trip_frozen_base_1", "trip_frozen_base_2", "trip_frozen_base_3",
       "trip_egg_fortress_1", "trip_egg_fortress_2" >>

LevelStages == {Ok(10100), Ok(10200), Ok(12345), Err}

LevelScenes ==
    {TitleScene} \cup
    {GameScene(st, Ok(FALSE), Ok(FALSE), g) : st \in LevelStages, g \in {Ok(TRUE), Ok(FALSE)}}

LevelMems ==
    { sc @@ PlayedSave @@ NoBoss @@ FlagMem(Ok(FALSE), gm) :
        sc \in LevelScenes, gm \in {Ok(0), Ok(1)} }
    \cup
    { GameScene(Ok(10200), Ok(FALSE), Ok(FALSE), Ok(FALSE)) @@ PlayedSave @@ b
        @@ FlagMem(Ok(FALSE), gm) : b \in SplitBosses, gm \in {Ok(0), Ok(1)} }

LevelSettings ==
    { {},
      {"bridge_island_1"},
      {"trip_bridge_island_1"},
      {"bridge_island_2", "trip_bridge_island_1"},
      DefaultSettings \ {"bridge_island_1", "trip_bridge_island_2"} }

TickLevel == \E m \in LevelMems, s \in LevelSettings : Tick(m, s, "Running", "Running")

NextLevel == Attach \/ TickLevel \/ Detach

SpecLevel == InitWith(DefaultSettings) /\ [][NextLevel]_vars

-----------------------------------------------------------------------------
(* SpecStart: the two first-play flags of the save slot and the game mode    *)
(* vary independently, under every combination of the three start toggles.   *)

StartSaves ==
    {NoSave} \cup
    { SaveMem(Ok(1), Ok(0), [i \in {0, 1} |-> SlotData(Ok(f), Ok(tr))]) :
        f \in BOOLEAN, tr \in BOOLEAN }

StartMems ==
    { TitleScene @@ sv @@ NoBoss @@ FlagMem(Ok(FALSE), gm) :
        sv \in StartSaves, gm \in {Ok(0), Ok(2)} }

StartSettings == SUBSET {"start_story", "start_trip", "start_last_story"}

StartTimers == { <<"NotRunning", "NotRunning">>, <<"Running", "Running">> }

TickStart == \E m \in StartMems, s \in StartSettings, t \in StartTimers : Tick(m, s, t[1], t[2])

NextStart == Attach \/ TickStart \/ Detach

SpecStart == InitWith(DefaultSettings) /\ [][NextStart]_vars

-----------------------------------------------------------------------------
(* SpecMode: game modes 2 and 3 next to 0, in the final stage with the goal  *)
(* flag and the boss varying, black_dragon set apart from the other toggles. *)

ModeScenes == {GameScene(Ok(110200), Ok(FALSE), Ok(FALSE), Ok(TRUE)), BossScene}

ModeMems ==
    { sc @@ PlayedSave @@ b @@ FlagMem(Ok(FALSE), gm) :
        sc \in ModeScenes, b \in FinalBosses, gm \in {Ok(0), Ok(2), Ok(3)} }

ModeSettings ==
    { {}, {"black_dragon"}, DefaultSettings \ {"black_dragon"}, DefaultSettings }

TickMode == \E m \in ModeMems, s \in ModeSettings : Tick(m, s, "Running", "Running")

NextMode == Attach \/ TickMode \/ Detach

SpecMode == InitWith(DefaultSettings) /\ [][NextMode]_vars

-----------------------------------------------------------------------------
(* What the latest tick did *)

\* The state is the end of a tick of the current session.
Ticked == attached /\ tick >= 1

Issued(c) == c \in Range(cmds)

GoalRose == changed_to(watchers.goal_ring_flag, TRUE)
GoalFell == changed_to(watchers.goal_ring_flag, FALSE)
BossRose == changed_to(watchers.boss_defeated, TRUE)

InRun == ts_run = "Running" \/ ts_run = "Paused"

\* The game scene's time-attack flag read true on the latest tick.
TimeAttackTick ==
    is_game_scene(mem) /\ is_ok_and_eq(mem.is_time_attack_mode, TRUE)

-----------------------------------------------------------------------------
(* C1 *)

\* The read behind each watched value failed on the latest tick.
LoadingReadFailed == ~mem.is_loading.ok
GameModeReadFailed == ~mem.game_mode.ok
StoryFlagReadFailed == FlagRead(mem) = "fail"
TripFlagReadFailed ==
    ~(save_slot(mem).ok /\ mem.save_datas[save_slot(mem).val].val.is_trip_first_play.ok)
SceneReadFailed == ~ReadAt(current_scene_controller(mem), mem.scene_name).ok
LevelReadFailed == SceneReadFailed \/ (is_game_scene(mem) /\ ~mem.stage_id.ok)
GoalReadFailed ==
    \/ SceneReadFailed
    \/ /\ is_game_scene(mem)
       /\ ~mem.is_time_attack_mode.ok
       /\ ~mem.is_result_sequence.ok
       /\ ~mem.is_goal_sequence.ok
BossReadFailed ==
    \/ ~ReadAt(current_scene_controller(mem), mem.boss_name).ok
    \/ is_boss(mem) /\ ~mem.boss_base_type.ok

\* C1 as stated: on a tick after the first of a session whose read of a
\* watched value fails, that value keeps its current value and changed() is
\* false, for each of the seven watched values.
C1_HoldOnFailure ==
    (Ticked /\ tick >= 2) =>
        /\ LoadingReadFailed   => ~changed(watchers.is_loading)
        /\ GameModeReadFailed  => ~changed(watchers.game_mode)
        /\ LevelReadFailed     => ~changed(watchers.level_id)
        /\ GoalReadFailed      => ~changed(watchers.goal_ring_flag)
        /\ BossReadFailed      => ~changed(watchers.boss_defeated)
        /\ StoryFlagReadFailed => ~changed(watchers.start_trigger)
        /\ TripFlagReadFailed  => ~changed(watchers.start_trigger_trip)

-----------------------------------------------------------------------------
(* C3 *)

LoadingCount == Count(cmds, "pause_game_time") + Count(cmds, "resume_game_time")

\* C3 as stated: with the timer Running, a pause or resume command is issued
\* on exactly the ticks where the loading sample differs from the sample of
\* the tick before.
C3_LoadingEdgeTriggered ==
    (Ticked /\ tick >= 2 /\ ts_run = "Running" /\ ~Issued("start")) =>
        (LoadingCount > 0 <=> changed(watchers.is_loading))

\* C3, amended: with the timer Running, every tick that issues no start issues
\* exactly one loading command, pause-game-time when the tick's loading sample
\* is true and resume-game-time when it is false, whether or not the sample
\* changed.
C3_LoadingLevelTriggered ==
    (Ticked /\ ts_run = "Running" /\ ~Issued("start")) =>
        /\ LoadingCount = 1
        /\ Issued("pause_game_time") <=> watchers.is_loading.current

\* C3 witness: the loading sample stays true from one Running tick to the
\* next, and the second tick issues pause-game-time again.
C3_Witness ==
    /\ Ticked /\ tick >= 2 /\ ts_run = "Running"
    /\ ~changed(watchers.is_loading)
    /\ watchers.is_loading.current
    /\ cmds = <<"pause_game_time">>

-----------------------------------------------------------------------------
(* C4 *)

\* A start trigger other than the story one fired on the latest tick.
OtherStartTrigger == start(watchers, settings \ {"start_story"})

\* C4 as stated: with start_story enabled and the timer NotRunning, the tick
\* on which the story first-play flag of the current slot reads true after
\* reading false on the tick before issues start.
C4_StartOnFlagRising ==
    ( /\ Ticked /\ "start_story" \in settings /\ ts_start = "NotRunning"
      /\ prev_flag = "false" /\ FlagRead(mem) = "true" )
    => Issued("start")

\* C4, amended: with start_story enabled and the timer NotRunning, the tick on
\* which the flag reads false after reading true on the tick before issues
\* start; and no tick on which the start-trigger sample (the negated flag) is
\* unchanged issues start unless another start trigger fires.
C4_StartOnFlagFalling ==
    /\ ( /\ Ticked /\ "start_story" \in settings /\ ts_start = "NotRunning"
         /\ prev_flag = "true" /\ FlagRead(mem) = "false" )
       => Count(cmds, "start") = 1
    /\ (Ticked /\ ~changed(watchers.start_trigger) /\ ~OtherStartTrigger)
       => ~Issued("start")

\* C4 witness: the flag read true, then false, start_story is on, the timer is
\* NotRunning, no other trigger fires, and the tick issued start.
C4_Witness ==
    /\ Ticked /\ "start_story" \in settings /\ ts_start = "NotRunning"
    /\ prev_flag = "true" /\ FlagRead(mem) = "false"
    /\ ~OtherStartTrigger
    /\ Issued("start")

-----------------------------------------------------------------------------
(* C5 *)

\* C5 as stated: a tick in which every memory read fails issues neither start
\* nor split.
C5_FailedReadsNoAction ==
    (Ticked /\ mem = AllFail) => (~Issued("start") /\ ~Issued("split"))

-----------------------------------------------------------------------------
(* C6 *)

\* C6 as stated: start, split, reset, the loading commands taken together, and
\* set-game-time are each issued at most once per tick.
C6_EachKindAtMostOnce ==
    Ticked =>
        /\ Count(cmds, "start") <= 1
        /\ Count(cmds, "split") <= 1
        /\ Count(cmds, "reset") <= 1
        /\ Count(cmds, "set_game_time") <= 1
        /\ LoadingCount <= 1

\* C6, amended: start, split, reset and set-game-time are each issued at most
\* once per tick; a loading command is issued once by the in-run step when the
\* timer is Running or Paused, and twice more on a tick that issues start.
C6_LoadingTwiceOnStart ==
    Ticked =>
        /\ Count(cmds, "start") <= 1
        /\ Count(cmds, "split") <= 1
        /\ Count(cmds, "reset") <= 1
        /\ Count(cmds, "set_game_time") <= 1
        /\ LoadingCount = (IF InRun THEN 1 ELSE 0) + (IF Issued("start") THEN 2 ELSE 0)

\* C6 witness: the timer was Running at the in-run step and NotRunning at the
\* start step, and the tick issued start and three loading commands.
C6_Witness ==
    Ticked /\ InRun /\ Issued("start") /\ LoadingCount = 3

-----------------------------------------------------------------------------
(* C9 *)

\* C9: start is issued only on a tick whose timer state read at the start
\* step is NotRunning, whatever start triggers fired.
C9_StartGating ==
    (Ticked /\ ts_start # "NotRunning") => ~Issued("start")

\* C9 witness: a start trigger fired with its toggle on while the timer was
\* Paused at the start step, and no start was issued.
C9_Witness ==
    /\ Ticked /\ ts_start = "Paused"
    /\ start(watchers, settings)
    /\ ~Issued("start")

-----------------------------------------------------------------------------
(* C10 *)

\* C10: the first tick of an attach session issues neither start nor split.
C10_FirstTickNoAction ==
    (attached /\ tick = 1) => (~Issued("start") /\ ~Issued("split"))

\* C10 witness: a first tick that samples true start triggers and game mode 2
\* with every toggle on, the timer Running at the in-run step and NotRunning
\* at the start step; it issued only the loading command.
C10_Witness ==
    /\ attached /\ tick = 1
    /\ settings = DefaultSettings
    /\ ts_run = "Running" /\ ts_start = "NotRunning"
    /\ watchers.start_trigger.current
    /\ watchers.start_trigger_trip.current
    /\ watchers.game_mode.current = 2
    /\ Len(cmds) = 1

-----------------------------------------------------------------------------
(* C2 *)

\* C2 as stated: on a tick where the goal flag goes false->true and the
\* boss-defeated flag has no rising edge, no split command is issued.
C2_NoSplitOnRisingGoal ==
    (Ticked /\ GoalRose /\ ~BossRose) => ~Issued("split")

\* C2, amended: on a tick where the goal flag goes false->true with no rising
\* edge of the boss-defeated flag, split is issued exactly when the previous
\* level id is 110200, the timer is Running or Paused and the branch's final
\* toggle is on (game mode 0 with egg_fortress_2, 1 with trip_egg_fortress_2);
\* and a split issued with no rising boss edge is on a falling goal edge or on
\* such a final-stage rising edge.
C2_RisingGoalSplitsOnlyFinalStage ==
    /\ (Ticked /\ GoalRose /\ ~BossRose) =>
          ( Issued("split") <=>
              /\ InRun
              /\ watchers.level_id.old = 110200
              /\ \/ watchers.game_mode.current = 0 /\ "egg_fortress_2" \in settings
                 \/ watchers.game_mode.current = 1 /\ "trip_egg_fortress_2" \in settings )
    /\ (Ticked /\ Issued("split") /\ ~BossRose) =>
          (GoalFell \/ (GoalRose /\ watchers.level_id.old = 110200))

\* C2 witness: the goal flag rises in Bridge Island 1 with its toggle on and the
\* timer Running, and the tick issues no split.
C2_Witness ==
    /\ Ticked /\ GoalRose /\ ~BossRose
    /\ ts_run = "Running"
    /\ watchers.level_id.old = 10100
    /\ watchers.game_mode.current = 0
    /\ "bridge_island_1" \in settings
    /\ ~Issued("split")

-----------------------------------------------------------------------------
(* C7 *)

-----------------------------------------------------------------------------
(* C8 *)

\* The split of the tick came from the level table (game mode 0 or 1), not
\* from the final-boss test.
OrdinarySplit ==
    /\ Issued("split")
    /\ watchers.game_mode.current \in {0, 1}
    /\ ~final_boss(watchers)

\* C8 as stated: on a tick where the scene is a game scene whose time-attack
\* flag reads true, the ordinary level-completion split is not issued.
C8_TimeAttackSuppressesSplit ==
    (Ticked /\ TimeAttackTick) => ~OrdinarySplit

-----------------------------------------------------------------------------
(* C11 *)

\* None of the seven watchers changed on the latest tick.
NoWatcherChanged == \A f \in DOMAIN watchers : watchers[f].some /\ ~changed(watchers[f])

\* C11: a tick on which every watched value's sample equals the value of the
\* tick before issues no start, no split and no reset, whatever the timer
\* state and the settings.
C11_UnchangedSamplesNoAction ==
    (Ticked /\ NoWatcherChanged) =>
        (~Issued("start") /\ ~Issued("split") /\ ~Issued("reset"))

\* C11 witness: a second tick that sampled again true start triggers, game
\* mode 2 and a raised goal flag with every toggle on, the timer Running at
\* the in-run step and NotRunning at the start step.
C11_Witness ==
    /\ attached /\ tick = 2 /\ NoWatcherChanged
    /\ settings = DefaultSettings
    /\ ts_run = "Running" /\ ts_start = "NotRunning"
    /\ watchers.start_trigger.current
    /\ watchers.game_mode.current = 2
    /\ watchers.goal_ring_flag.current
    /\ ~Issued("start") /\ ~Issued("split")

-----------------------------------------------------------------------------
(* C12 *)

\* C12: no tick issues both reset and split, and the if / else if of the
\* in-run step, given a true reset condition and the tick's split condition,
\* issues reset alone.
C12_ResetSuppressesSplit ==
    Ticked =>
        /\ ~(Issued("reset") /\ Issued("split"))
        /\ (reset(watchers, settings) => ~Issued("split"))
        /\ ResetElseSplit(TRUE, split(watchers, settings)) = <<"reset">>

\* C12 witness: the split condition held on a tick with the timer Running
\* and the tick issued split and no reset.
C12_Witness ==
    /\ Ticked /\ ts_run = "Running"
    /\ split(watchers, settings)
    /\ Issued("split") /\ ~Issued("reset")

-----------------------------------------------------------------------------
(* C13 *)

\* C13 as stated: every tick issues at most one of start, split and reset,
\* also when the timer state read at the start step differs from the one
\* read at the in-run step.
C13_AtMostOneStructuralAction ==
    Ticked => Cardinality({c \in {"start", "split", "reset"} : Issued(c)}) <= 1

-----------------------------------------------------------------------------
(* C14 *)

\* C14: on a tick whose scene controller class is not a game scene, its
\* pointer or name unreadable included, the level id and the goal flag keep
\* their value (changed() is false); on a tick whose active boss class is
\* not Bos111 or Bos112, or cannot be read, boss-defeated keeps its value.
C14_ContextGatingHolds ==
    Ticked =>
        /\ ~is_game_scene(mem) =>
                (~changed(watchers.level_id) /\ ~changed(watchers.goal_ring_flag))
        /\ ~is_boss(mem) => ~changed(watchers.boss_defeated)

\* C14 witness: outside a game scene, with a boss of another class whose
\* base type reads 0, with stage 20100 and a lowered goal flag in memory, the
\* watchers still hold level 10100, a raised goal flag and a defeated boss.
C14_Witness ==
    /\ attached /\ tick = 2
    /\ ~is_game_scene(mem) /\ mem.stage_id = Ok(20100)
    /\ mem.boss_name = Ok("Bos999") /\ mem.boss_base_type = Ok(0)
    /\ watchers.level_id.current = 10100
    /\ watchers.goal_ring_flag.current
    /\ watchers.boss_defeated.current

-----------------------------------------------------------------------------
(* C15 *)

\* Positions of the loading commands and of start in the tick's commands.
LoadingIdx == {i \in 1..Len(cmds) : cmds[i] \in {"pause_game_time", "resume_game_time"}}
StartIdx == {i \in 1..Len(cmds) : cmds[i] = "start"}

\* C15: a tick that issues start issues a loading command after it, and the
\* last loading command of the tick is pause when the tick's loading sample
\* is true and resume when it is false.
C15_LoadingRestoredAfterStart ==
    (Ticked /\ Issued("start")) =>
        \E j \in LoadingIdx :
            /\ \A i \in StartIdx : i < j
            /\ \A k \in LoadingIdx : k <= j
            /\ cmds[j] = IF is_loading_sample(mem) THEN "pause_game_time"
                                                   ELSE "resume_game_time"

\* C15 witness: start was issued on a tick whose loading sample is false and
\* the tick's commands end with resume, after the pause that follows start.
C15_Witness ==
    /\ Ticked /\ Issued("start")
    /\ ~is_loading_sample(mem)
    /\ Len(cmds) >= 3
    /\ cmds[Len(cmds) - 1] = "pause_game_time"
    /\ cmds[Len(cmds)] = "resume_game_time"

-----------------------------------------------------------------------------
(* C16 *)

\* C16: on a tick with the timer Running whose previous level id is 110200
\* and on which boss-defeated or the goal flag rose, split is issued exactly
\* when egg_fortress_2 is enabled in game mode 0, and exactly when
\* trip_egg_fortress_2 is enabled in game mode 1, whatever the other toggles.
C16_TerminalSplit ==
    ( /\ Ticked /\ ts_run = "Running"
      /\ watchers.level_id.old = 110200
      /\ (BossRose \/ GoalRose) ) =>
        /\ watchers.game_mode.current = 0 =>
                (Issued("split") <=> "egg_fortress_2" \in settings)
        /\ watchers.game_mode.current = 1 =>
                (Issued("split") <=> "trip_egg_fortress_2" \in settings)

\* C16 witness: the goal flag rose, with no boss defeated, in game mode 1
\* after a tick at level 110200, with trip_egg_fortress_2 the only toggle
\* enabled, and split was issued.
C16_Witness ==
    /\ attached /\ tick = 2 /\ ts_run = "Running"
    /\ watchers.level_id.old = 110200
    /\ GoalRose /\ ~BossRose
    /\ watchers.game_mode.current = 1
    /\ settings = {"trip_egg_fortress_2"}
    /\ Issued("split")

-----------------------------------------------------------------------------
(* C17 *)

\* C17: on a tick whose timer state read after the sampling pass is neither
\* Running nor Paused, no split, reset or set-game-time is issued, and the
\* only loading commands are those of the start step, after start.
C17_InRunGating ==
    (Ticked /\ ~InRun) =>
        /\ ~Issued("split") /\ ~Issued("reset") /\ ~Issued("set_game_time")
        /\ (cmds = <<>> \/ cmds[1] = "start")

\* C17 witness: the split condition held on a tick whose timer state was
\* Ended at both reads, and the tick issued nothing.
C17_Witness ==
    /\ Ticked /\ ts_run = "Ended" /\ ts_start = "Ended"
    /\ split(watchers, settings)
    /\ cmds = <<>>

-----------------------------------------------------------------------------
(* C18 *)

\* The toggle of branch gm (0 Story, 1 Trip) for the k-th level-table key.
BranchField(gm, k) == IF gm = 0 THEN StoryFields[k] ELSE TripFields[k]

\* The watchers of the latest tick with another previous level id.
WithPreviousLevel(id) == [watchers EXCEPT !.level_id.old = id]

\* Level ids outside the table.
OtherLevelIds == {0, 10101, 12345, 110300}

\* C18: on a tick with the timer Running, the goal flag fallen, game mode 0
\* or 1 and no final-stage rising condition, split is issued exactly when the
\* previous tick's level id is a level-table key whose toggle in the game
\* mode's branch is enabled; on such a tick without a boss-defeated edge
\* the decision for each of the 26 keys as previous level id is its branch
\* toggle, and for an id outside the table it is no split.
C18_OrdinarySplitByPreviousLevel ==
    ( /\ Ticked /\ ts_run = "Running" /\ GoalFell
      /\ watchers.game_mode.current \in {0, 1}
      /\ ~(watchers.level_id.old = 110200 /\ BossRose) ) =>
        /\ Issued("split") <=>
                \E k \in 1..Len(LevelKeys) :
                    /\ LevelKeys[k] = watchers.level_id.old
                    /\ BranchField(watchers.game_mode.current, k) \in settings
        /\ ~BossRose =>
            /\ \A k \in 1..Len(LevelKeys) :
                    split(WithPreviousLevel(LevelKeys[k]), settings) <=>
                        BranchField(watchers.game_mode.current, k) \in settings
            /\ \A id \in OtherLevelIds : ~split(WithPreviousLevel(id), settings)

\* C18 witness: the goal flag fell in game mode 1 on a tick that moved from
\* level 10100 to level 10200, with trip_bridge_island_1 the only toggle
\* enabled, and split was issued.
C18_Witness ==
    /\ attached /\ tick = 2 /\ ts_run = "Running" /\ GoalFell
    /\ watchers.game_mode.current = 1
    /\ watchers.level_id.old = 10100 /\ watchers.level_id.current = 10200
    /\ settings = {"trip_bridge_island_1"}
    /\ Issued("split")

-----------------------------------------------------------------------------
(* C19 *)

\* The watched boolean was false on the previous tick and is true now.
BecameTrue(p) == p.old = FALSE /\ p.current = TRUE

\* C19: on a tick whose timer state at the start step is NotRunning, start
\* is issued exactly when an enabled trigger fired: start_story with the
\* Story start trigger changed to true, start_trip with the Trip start
\* trigger changed to true, or start_last_story with the game mode changed
\* to 2 from another value.
C19_StartIsOrOfEnabledTriggers ==
    (Ticked /\ ts_start = "NotRunning") =>
        ( Issued("start") <=>
            \/ "start_story" \in settings /\ BecameTrue(watchers.start_trigger)
            \/ "start_trip" \in settings /\ BecameTrue(watchers.start_trigger_trip)
            \/ /\ "start_last_story" \in settings
               /\ watchers.game_mode.old # 2
               /\ watchers.game_mode.current = 2 )

\* C19 witness: with start_last_story the only start toggle enabled, the
\* game mode changed to 2 while neither start trigger changed, and start
\* was issued.
C19_Witness ==
    /\ attached /\ tick = 2 /\ ts_start = "NotRunning"
    /\ settings = {"start_last_story"}
    /\ watchers.game_mode.old = 0 /\ watchers.game_mode.current = 2
    /\ ~changed(watchers.start_trigger) /\ ~changed(watchers.start_trigger_trip)
    /\ Issued("start")

-----------------------------------------------------------------------------
(* C20 *)

\* The step is a tick of the session: the process stays attached.
TickStep == attached /\ attached'

\* The sample each watcher received from the memory image of the step's tick.
SampleOf(f) ==
    CASE f = "start_trigger"      -> start_trigger_sample(mem')
      [] f = "start_trigger_trip" -> start_trigger_trip_sample(mem')
      [] f = "level_id"           -> level_id_sample(mem', watchers)
      [] f = "is_loading"         -> is_loading_sample(mem')
      [] f = "goal_ring_flag"     -> goal_ring_flag_sample(mem', watchers)
      [] f = "game_mode"          -> game_mode_sample(mem')
      [] f = "boss_defeated"      -> boss_defeated_sample(mem', watchers)

\* C20: over a tick each of the seven watchers is updated exactly once: its
\* previous value becomes the current value it had at the end of the tick
\* before (the first sample on the first tick of a session), and its current
\* value at the end of the tick is the tick's sample, untouched by the
\* decision functions.
C20_ShiftInvariant ==
    [][ TickStep =>
            \A f \in DOMAIN watchers :
                /\ watchers'[f].some
                /\ watchers'[f].current = SampleOf(f)
                /\ watchers'[f].old = IF watchers[f].some THEN watchers[f].current
                                                         ELSE SampleOf(f) ]_vars

\* C20 witness: a second tick on which the start trigger, the level id, the
\* goal flag and the game mode all took a new value, the old one kept as
\* previous.
C20_Witness ==
    /\ attached /\ tick = 2
    /\ changed(watchers.start_trigger)
    /\ changed(watchers.level_id)
    /\ changed(watchers.goal_ring_flag)
    /\ changed(watchers.game_mode)

-----------------------------------------------------------------------------
(* C21 *)

\* The latest tick opened a level-completion window: the goal flag rose with
\* the timer Running, in game mode 0 or 1, level id and game mode unchanged.
WindowOpened ==
    /\ Ticked /\ ts_run = "Running" /\ GoalRose
    /\ watchers.game_mode.current \in {0, 1}
    /\ ~changed(watchers.game_mode) /\ ~changed(watchers.level_id)

\* The step is the next tick of the same window: the timer Running, the same
\* level id and game mode, and no new rising edge of the goal flag.
WindowContinues ==
    /\ TickStep /\ ts_run' = "Running"
    /\ ~changed(watchers'.game_mode) /\ ~changed(watchers'.level_id)
    /\ ~changed_to(watchers'.goal_ring_flag, TRUE)

\* C21 as stated, on the first two ticks of a window: a tick that opened a
\* window with a split is not followed, inside the window, by a tick that
\* issues another split, whatever the level id.
C21_OneSplitPerCompletion ==
    [][ (WindowOpened /\ Issued("split") /\ WindowContinues)
            => "split" \notin Range(cmds') ]_vars

-----------------------------------------------------------------------------
(* C22 *)

\* C22: with the timer Running, a tick in game mode 2 issues split exactly
\* when boss-defeated rose on it and black_dragon is enabled, whatever the
\* goal flag and the level id did, and a tick in a game mode other than 0, 1
\* and 2 issues no split.
C22_SplitOutsideStoryAndTrip ==
    (Ticked /\ ts_run = "Running") =>
        /\ watchers.game_mode.current = 2 =>
                (Issued("split") <=> (BossRose /\ "black_dragon" \in settings))
        /\ watchers.game_mode.current \notin {0, 1, 2} => ~Issued("split")

\* C22 witness: in game mode 2 the goal flag rose after a tick at level
\* 110200, with no boss defeated and every toggle enabled, and no split was
\* issued.
C22_Witness ==
    /\ attached /\ tick = 2 /\ ts_run = "Running"
    /\ watchers.game_mode.current = 2
    /\ watchers.level_id.old = 110200
    /\ GoalRose /\ ~BossRose
    /\ settings = DefaultSettings
    /\ ~Issued("split")

-----------------------------------------------------------------------------
(* C23 *)

\* Place of a command in the in-run step.
InRunRank(c) ==
    CASE c \in {"pause_game_time", "resume_game_time"} -> 1
      [] c = "set_game_time" -> 2
      [] c \in {"reset", "split"} -> 3
      [] OTHER -> 4

\* Position of the tick's start command, past the end when there is none.
StartPos == IF StartIdx = {} THEN Len(cmds) + 1
            ELSE CHOOSE i \in StartIdx : \A j \in StartIdx : i <= j

\* C23: the commands of a tick come in the order loading, set-game-time,
\* reset or split, start, start-step loading: before start each kind occurs
\* at most once and in that order, and after start only loading commands
\* follow, so no in-run loading command follows a split and no split
\* follows a start.
C23_CommandOrder ==
    Ticked =>
        /\ \A i, j \in 1..(StartPos - 1) :
                i < j => InRunRank(cmds[i]) < InRunRank(cmds[j])
        /\ \A j \in (StartPos + 1)..Len(cmds) :
                cmds[j] \in {"pause_game_time", "resume_game_time"}

\* C23 witness: a tick that issued a loading command, split, start and the
\* two loading commands of the start step, in that order.
C23_Witness ==
    /\ Ticked /\ Len(cmds) = 5
    /\ cmds[1] \in {"pause_game_time", "resume_game_time"}
    /\ cmds[2] = "split"
    /\ cmds[3] = "start"
    /\ cmds[4] = "pause_game_time"
    /\ cmds[5] \in {"pause_game_time", "resume_game_time"}

-----------------------------------------------------------------------------
(* C24 *)

\* C24: no tick issues the reset command or the set-game-time command.
C24_NoResetNoGameTime ==
    Ticked => (~Issued("reset") /\ ~Issued("set_game_time"))

\* C24 witness: the in-run step ran with the timer Paused on a tick where
\* the Story start trigger changed to true and the split condition held, and
\* the tick issued its loading command and split only.
C24_Witness ==
    /\ Ticked /\ ts_run = "Paused"
    /\ changed_to(watchers.start_trigger, TRUE)
    /\ split(watchers, settings)
    /\ Len(cmds) = 2 /\ cmds[2] = "split"

====
